---- MODULE Spec2Model ----
(***************************************************************************)
(* The Describer (src/app.py): a Streamlit page that sends an uploaded     *)
(* image to a vision model and keeps one piece of session state, the       *)
(* description text.                                                       *)
(*                                                                         *)
(* Text is a sequence of characters.  The characters that matter to the    *)
(* code are kept apart: the two whitespace characters, a letter, the two   *)
(* characters json.dumps escapes, the full stop of the ellipsis, and       *)
(* ENDTAG, which stands for the nine-character substring "</script>" (no   *)
(* whitespace inside, nothing json.dumps escapes).                         *)
(***************************************************************************)
EXTENDS Integers, Sequences, FiniteSets, TLC

\* ------------------------------------------------------------------ bounds
MaxBlocks == 2
MaxTextLen == 5

\* ------------------------------------------------------- program constants
HardCap == 300
SliderMin == 1
SliderMax == 300
SliderDefault == 100

\* ---------------------------------------------------------------- strings
SP == " "
NL == "\n"
QUOTE == "\""
BSLASH == "\\"
DOT == "."
ENDTAG == "</script>"

Whitespace == {SP, NL}
Alphabet == {"a", SP, NL, QUOTE, BSLASH, ENDTAG}

Min(a, b) == IF a <= b THEN a ELSE b

TextsUpTo(chars, n) == UNION {[1..k -> chars] : k \in 0..n}

RECURSIVE SplitAcc(_, _, _)
SplitAcc(t, cur, acc) ==
    IF t = <<>>
    THEN IF cur = <<>> THEN acc ELSE Append(acc, cur)
    ELSE IF Head(t) \in Whitespace
         THEN SplitAcc(Tail(t), <<>>, IF cur = <<>> THEN acc ELSE Append(acc, cur))
         ELSE SplitAcc(Tail(t), Append(cur, Head(t)), acc)

\* str.split(): the maximal runs of non-whitespace characters, in order
Split(t) == SplitAcc(t, <<>>, <<>>)

RECURSIVE Join(_, _)
\* sep.join(parts)
Join(sep, parts) ==
    IF parts = <<>> THEN <<>>
    ELSE IF Len(parts) = 1 THEN parts[1]
    ELSE parts[1] \o sep \o Join(sep, Tail(parts))

RECURSIVE LStrip(_)
LStrip(t) == IF t # <<>> /\ Head(t) \in Whitespace THEN LStrip(Tail(t)) ELSE t

RECURSIVE RStrip(_)
RStrip(t) ==
    IF t # <<>> /\ t[Len(t)] \in Whitespace THEN RStrip(SubSeq(t, 1, Len(t) - 1)) ELSE t

\* str.strip()
Strip(t) == RStrip(LStrip(t))

\* words[:n]
Take(s, n) == SubSeq(s, 1, Min(n, Len(s)))

Ellipsis == <<DOT, DOT, DOT>>

\* ------------------------------------------------------ enforce_word_limit
\* as enforce_word_limit, comparing with < where the code has <=
enforce_word_limit_strict(text, max_words) ==
    LET words == Split(text)
    IN  IF Len(words) < max_words
        THEN text
        ELSE Join(<<SP>>, Take(words, max_words)) \o Ellipsis

\* as enforce_word_limit, keeping one word too many
enforce_word_limit_one_more(text, max_words) ==
    LET words == Split(text)
    IN  IF Len(words) <= max_words
        THEN text
        ELSE Join(<<SP>>, Take(words, max_words + 1)) \o Ellipsis

enforce_word_limit(text, max_words) ==
    LET words == Split(text)
    IN  IF Len(words) <= max_words
        THEN text
        ELSE Join(<<SP>>, Take(words, max_words)) \o Ellipsis

\* ------------------------------------------------------------ json.dumps
EscapeChar(c) ==
    IF c = QUOTE THEN <<BSLASH, QUOTE>>
    ELSE IF c = BSLASH THEN <<BSLASH, BSLASH>>
    ELSE IF c = NL THEN <<BSLASH, "n">>
    ELSE <<c>>

RECURSIVE EscapeAll(_)
EscapeAll(t) == IF t = <<>> THEN <<>> ELSE EscapeChar(Head(t)) \o EscapeAll(Tail(t))

\* json.dumps(str): a double-quoted literal with ", \ and newline escaped
JsonDumps(t) == <<QUOTE>> \o EscapeAll(t) \o <<QUOTE>>

\* ------------------------------------------- the page fragment Copy renders
WriteTextOpen == "navigator.clipboard.writeText("
WriteTextClose == ");"

\* the f-string handed to st_html: <script> writeText(<json>); </script>
CopyHtml(desc) ==
    <<"<script>", WriteTextOpen>> \o JsonDumps(desc) \o <<WriteTextClose, ENDTAG>>

RECURSIVE UntilEndTag(_)
UntilEndTag(t) ==
    IF t = <<>> \/ Head(t) = ENDTAG THEN <<>> ELSE <<Head(t)>> \o UntilEndTag(Tail(t))

\* the script element of the fragment: it ends at the first "</script>"
ScriptBody(html) == UntilEndTag(Tail(html))

NoWrite == [written |-> FALSE, text |-> <<>>]

Unescape(c) == IF c = "n" THEN NL ELSE c

RECURSIVE ReadLiteral(_, _)
\* the string a JavaScript double-quoted literal denotes, up to its closing
\* quote; what follows it must be the end of the call
ReadLiteral(t, acc) ==
    IF t = <<>> THEN NoWrite
    ELSE IF Head(t) = QUOTE
         THEN IF Tail(t) = <<WriteTextClose>>
              THEN [written |-> TRUE, text |-> acc]
              ELSE NoWrite
    ELSE IF Head(t) = BSLASH
         THEN IF Len(t) < 2 THEN NoWrite
              ELSE ReadLiteral(Tail(Tail(t)), Append(acc, Unescape(t[2])))
    ELSE ReadLiteral(Tail(t), Append(acc, Head(t)))

\* running the script: a script that does not parse writes nothing
RunScript(body) ==
    IF Len(body) >= 2 /\ body[1] = WriteTextOpen /\ body[2] = QUOTE
    THEN ReadLiteral(Tail(Tail(body)), <<>>)
    ELSE NoWrite

\* what the rendered fragment hands to the clipboard
ClipboardWrite(desc) == RunScript(ScriptBody(CopyHtml(desc)))

\* ------------------------------------------------------- get_claude_client
SecretsStates == {"raises", "empty", "key"}
EnvironStates == {"absent", "key"}

\* api_key after step 1 (st.secrets may raise; the exception is swallowed)
FromSecrets(sec) == IF sec = "key" THEN "key" ELSE IF sec = "empty" THEN "" ELSE "None"

\* os.environ.get
FromEnviron(env) == IF env = "key" THEN "key" ELSE "None"

Falsy(k) == k \in {"None", ""}

\* as get_claude_client, falling back to a default key instead of raising
get_claude_client_default(sec, env) ==
    LET k1 == FromSecrets(sec)
        k2 == IF Falsy(k1) THEN FromEnviron(env) ELSE k1
    IN  [raised |-> "none", api_key |-> IF Falsy(k2) THEN "default" ELSE k2]

get_claude_client(sec, env) ==
    LET k1 == FromSecrets(sec)
        k2 == IF Falsy(k1) THEN FromEnviron(env) ELSE k1
    IN  IF Falsy(k2)
        THEN [raised |-> "Claude API key not found", api_key |-> "None"]
        ELSE [raised |-> "none", api_key |-> k2]

\* ------------------------------------------------------------ to_png_bytes
NoFile == "None"
Corrupt == "corrupt"
Modes == {"P", "RGB"}
Files == {NoFile, Corrupt} \cup Modes

to_png_bytes(raw) ==
    IF raw \notin Modes
    THEN [raised |-> "cannot identify image file", png |-> "None"]
    ELSE [raised |-> "none",
          png |-> [format |-> "PNG",
                   mode |-> IF raw \in {"P", "LA"} THEN "RGBA" ELSE "RGB"]]

\* ---------------------------------------------- describe_image_with_claude
\* as ClampLimit, without the cap
ClampLimit_none(v) == v

\* max_words = min(max_words, 300)
ClampLimit(v) == Min(v, HardCap)

\* the two numbers line 77 writes into the prompt
user_prompt(max_words) == [limit |-> max_words, ceiling |-> HardCap]

\* up to the call of client.messages.create
BeginDescribe(image_bytes, v, sec, env) ==
    LET max_words == ClampLimit(v)
        img == to_png_bytes(image_bytes)
        client == get_claude_client(sec, env)
    IN  IF img.raised # "none"
        THEN [raised |-> img.raised, max_words |-> max_words, request |-> "None"]
        ELSE IF client.raised # "none"
        THEN [raised |-> client.raised, max_words |-> max_words, request |-> "None"]
        ELSE [raised |-> "none", max_words |-> max_words,
              request |-> [model |-> "claude-3-haiku-20240307",
                           api_key |-> client.api_key,
                           media_type |-> "image/png",
                           data |-> img.png,
                           prompt |-> user_prompt(max_words)]]

NonText == [type |-> "tool_use"]
TextBlock(t) == [type |-> "text", text |-> t]
ChunkTexts == {<<>>} \cup {<<c>> : c \in Alphabet \ {NL}}
Blocks == {NonText} \cup {TextBlock(t) : t \in ChunkTexts}
ServiceErrorText == "service error"
Replies ==
    {[ok |-> FALSE, content |-> <<>>]}
        \cup {[ok |-> TRUE, content |-> c] : c \in TextsUpTo(Blocks, MaxBlocks)}
NoReply == [ok |-> FALSE, content |-> <<"no call">>]

RECURSIVE TextChunks(_)
\* [b.text for b in response.content if b.type == "text"]
TextChunks(content) ==
    IF content = <<>> THEN <<>>
    ELSE IF Head(content).type = "text"
         THEN <<Head(content).text>> \o TextChunks(Tail(content))
         ELSE TextChunks(Tail(content))

\* "\n\n".join(text_chunks)
ResponseText(content) == Join(<<NL, NL>>, TextChunks(content))

\* the limit line 113 hands to enforce_word_limit
EnforceArg(max_words) == max_words

\* from the return of client.messages.create to the function's return
FinishDescribe(max_words, r) ==
    IF ~r.ok
    THEN [raised |-> ServiceErrorText, value |-> <<>>, enforced |-> 0]
    ELSE [raised |-> "none",
          value |-> enforce_word_limit(ResponseText(r.content), EnforceArg(max_words)),
          enforced |-> EnforceArg(max_words)]

\* ------------------------------------------------------------------- page
Placeholder == <<"_No description yet. Upload an image and click **Describe**._">>

\* lines 262-265
Render(desc) ==
    IF desc # <<>> THEN [widget |-> "markdown", body |-> desc]
    ELSE [widget |-> "write", body |-> Placeholder]

NoAlert == [kind |-> "none", cause |-> "none"]
Warning == [kind |-> "warning", cause |-> "Please upload an image first."]
Error(e) == [kind |-> "error", cause |-> e]
Success == [kind |-> "success", cause |-> "Description copied to clipboard!"]

\* as NoImage, with the test for a missing upload left out
NoImage_never(f) == FALSE

\* uploaded_file is None
NoImage(f) == f = NoFile

\* as StoreResult, without the strip
StoreResult_raw(value) == value

\* the value the Describe handler assigns: the returned text, stripped
StoreResult(value) == Strip(value)

\* as OnDescribeError, storing the error text as the description
OnDescribeError_clobber(desc, e) == <<e>>

\* the except branch assigns nothing
OnDescribeError(desc, e) == desc

NoOutput == <<"no output">>
SliderValues == {SliderMin, 2, SliderDefault}

VARIABLES
    description,    \* st.session_state.description
    uploaded_file,  \* the file the uploader holds
    max_words,      \* the slider
    secrets,        \* st.secrets, as configured
    environ,        \* os.environ, as configured
    pc,             \* "idle", or "awaiting" inside client.messages.create
    outbox,         \* the requests sent and not yet answered
    frame,          \* max_words of the describe_image_with_claude call under way
    shown,          \* the description area as last rendered
    alert,          \* the warning, error or success box of the last script run
    clipboard,      \* what the last script run handed to the clipboard
    lastAction,     \* the widget that caused the last script run
    sent,           \* requests sent by the last script run
    normalized,     \* whether the last script run called to_png_bytes
    reply,          \* what the service answered in the last script run
    lastOutput,     \* what the last successful Describe since a clear produced
    fnText, fnLimit, fnOut, fnCall  \* direct calls of the two functions

uiVars == <<description, uploaded_file, max_words, secrets, environ, pc, outbox, frame,
            shown, alert, clipboard, lastAction, sent, normalized, reply, lastOutput>>
fnVars == <<fnText, fnLimit, fnOut, fnCall>>
vars == <<uiVars, fnVars>>

NoCall == [v |-> 0, prompt_limit |-> 0, enforce_limit |-> 0, value |-> <<>>]

\* the session before the first interaction (lines 127-128, 230-236)
InitUi ==
    /\ description = <<>>
    /\ uploaded_file = NoFile
    /\ max_words = SliderDefault
    /\ pc = "idle"
    /\ outbox = <<>>
    /\ frame = 0
    /\ shown = Render(<<>>)
    /\ alert = NoAlert
    /\ clipboard = NoWrite
    /\ lastAction = "none"
    /\ sent = 0
    /\ normalized = FALSE
    /\ reply = NoReply
    /\ lastOutput = NoOutput

Init ==
    /\ InitUi
    /\ secrets \in SecretsStates
    /\ environ \in EnvironStates
    /\ fnText = <<>>
    /\ fnLimit = SliderMin
    /\ fnOut = <<>>
    /\ fnCall = NoCall

\* a script run in which neither Describe nor Copy was clicked
Quiet ==
    /\ alert' = NoAlert
    /\ clipboard' = NoWrite
    /\ sent' = 0
    /\ normalized' = FALSE
    /\ reply' = NoReply
    /\ UNCHANGED <<pc, outbox, frame, secrets, environ>>

\* the user picks, replaces or removes the file (lines 220-227)
Upload ==
    /\ pc = "idle"
    /\ \E f \in Files \ {uploaded_file} : uploaded_file' = f
    /\ shown' = Render(description)
    /\ lastAction' = "Upload"
    /\ Quiet
    /\ UNCHANGED <<description, max_words, lastOutput, fnVars>>

\* the user moves the slider (lines 230-236)
AdjustLength ==
    /\ pc = "idle"
    /\ \E v \in SliderValues \ {max_words} : max_words' = v
    /\ shown' = Render(description)
    /\ lastAction' = "Adjust"
    /\ Quiet
    /\ UNCHANGED <<description, uploaded_file, lastOutput, fnVars>>

\* Clear (lines 244-245), then the render
Clear ==
    /\ pc = "idle"
    /\ description' = <<>>
    /\ shown' = Render(description')
    /\ lastOutput' = NoOutput
    /\ lastAction' = "Clear"
    /\ Quiet
    /\ UNCHANGED <<uploaded_file, max_words, fnVars>>

\* Clear text (lines 274-275): the render of lines 262-265 comes first
ClearText ==
    /\ pc = "idle"
    /\ shown' = Render(description)
    /\ description' = <<>>
    /\ lastOutput' = NoOutput
    /\ lastAction' = "ClearText"
    /\ Quiet
    /\ UNCHANGED <<uploaded_file, max_words, fnVars>>

\* Copy (lines 277-286)
Copy ==
    /\ pc = "idle"
    /\ shown' = Render(description)
    /\ IF description # <<>>
       THEN /\ clipboard' = ClipboardWrite(description)
            /\ alert' = Success
       ELSE /\ clipboard' = NoWrite
            /\ alert' = NoAlert
    /\ lastAction' = "Copy"
    /\ sent' = 0
    /\ normalized' = FALSE
    /\ reply' = NoReply
    /\ UNCHANGED <<description, uploaded_file, max_words, lastOutput, pc, outbox, frame,
                   secrets, environ, fnVars>>

\* Describe with nothing uploaded (lines 247-249)
DescribeNoFile ==
    /\ pc = "idle"
    /\ NoImage(uploaded_file)
    /\ alert' = Warning
    /\ shown' = Render(description)
    /\ lastAction' = "Describe"
    /\ clipboard' = NoWrite
    /\ sent' = 0
    /\ normalized' = FALSE
    /\ reply' = NoReply
    /\ UNCHANGED <<description, uploaded_file, max_words, lastOutput, pc, outbox, frame,
                   secrets, environ, fnVars>>

\* Describe where the call raises before anything is sent (lines 250-258)
DescribeRaises ==
    /\ pc = "idle"
    /\ ~NoImage(uploaded_file)
    /\ LET b == BeginDescribe(uploaded_file, max_words, secrets, environ)
       IN  /\ b.raised # "none"
           /\ description' = OnDescribeError(description, b.raised)
           /\ alert' = Error(b.raised)
    /\ shown' = Render(description')
    /\ lastAction' = "Describe"
    /\ clipboard' = NoWrite
    /\ sent' = 0
    /\ normalized' = TRUE
    /\ reply' = NoReply
    /\ UNCHANGED <<uploaded_file, max_words, lastOutput, pc, outbox, frame,
                   secrets, environ, fnVars>>

\* Describe up to client.messages.create: the request leaves (lines 250-107)
DescribeSend ==
    /\ pc = "idle"
    /\ ~NoImage(uploaded_file)
    /\ LET b == BeginDescribe(uploaded_file, max_words, secrets, environ)
       IN  /\ b.raised = "none"
           /\ outbox' = Append(outbox, b.request)
           /\ frame' = b.max_words
    /\ pc' = "awaiting"
    /\ lastAction' = "Describe"
    /\ alert' = NoAlert
    /\ clipboard' = NoWrite
    /\ sent' = 1
    /\ normalized' = TRUE
    /\ reply' = NoReply
    /\ UNCHANGED <<description, uploaded_file, max_words, lastOutput, shown,
                   secrets, environ, fnVars>>

\* as AfterReply, sending the request again when the exchange failed
AfterReply_retry(box, r) == IF r.ok THEN Tail(box) ELSE box

\* the outstanding requests once messages.create has returned or raised:
\* the call is made once, in no loop
AfterReply(box, r) == Tail(box)

\* client.messages.create returns or raises; the rest of the script run
\* (lines 109-113, 253-265)
ServiceReply ==
    /\ pc = "awaiting"
    /\ \E r \in Replies :
        LET fin == FinishDescribe(frame, r)
        IN  /\ reply' = r
            /\ outbox' = AfterReply(outbox, r)
            /\ IF fin.raised # "none"
               THEN /\ description' = OnDescribeError(description, fin.raised)
                    /\ alert' = Error(fin.raised)
                    /\ lastOutput' = lastOutput
               ELSE /\ description' = StoreResult(fin.value)
                    /\ alert' = NoAlert
                    /\ lastOutput' = description'
    /\ shown' = Render(description')
    /\ pc' = "idle"
    /\ frame' = 0
    /\ UNCHANGED <<uploaded_file, max_words, lastAction, clipboard, sent, normalized,
                   secrets, environ, fnVars>>

Next ==
    \/ Upload
    \/ AdjustLength
    \/ Clear
    \/ ClearText
    \/ Copy
    \/ DescribeNoFile
    \/ DescribeRaises
    \/ DescribeSend
    \/ ServiceReply

Spec == Init /\ [][Next]_vars

\* ------------------------------------------- the functions called directly
FnTexts == TextsUpTo({"a", SP, NL}, MaxTextLen)
FnLimits == {SliderMin, 2, 3, SliderMax, SliderMax + 1, SliderMax + 200}

InitFn ==
    /\ InitUi
    /\ secrets = "key"
    /\ environ = "absent"
    /\ fnText \in FnTexts
    /\ fnLimit \in FnLimits
    /\ fnOut = <<>>
    /\ fnCall = NoCall

\* enforce_word_limit applied to the input, then to its own result
ApplyEnforce ==
    /\ Len(fnOut) < 2
    /\ fnOut' = Append(fnOut,
                       enforce_word_limit(IF fnOut = <<>> THEN fnText ELSE fnOut[Len(fnOut)],
                                          fnLimit))
    /\ UNCHANGED <<fnText, fnLimit, fnCall, uiVars>>

\* describe_image_with_claude(image, fnLimit) where the service answers fnText
ApplyDescribe ==
    /\ fnCall = NoCall
    /\ \E img \in Modes :
        LET b == BeginDescribe(img, fnLimit, secrets, environ)
            fin == FinishDescribe(b.max_words, [ok |-> TRUE, content |-> <<TextBlock(fnText)>>])
        IN  fnCall' = [v |-> fnLimit,
                       prompt_limit |-> b.request.prompt.limit,
                       enforce_limit |-> fin.enforced,
                       value |-> fin.value]
    /\ UNCHANGED <<fnText, fnLimit, fnOut, uiVars>>

NextFn ==
    \/ ApplyEnforce
    \/ ApplyDescribe

SpecFn == InitFn /\ [][NextFn]_vars

\* ------------------------------------------------------------- properties
FirstWords(t, w) == SubSeq(Split(t), 1, w)
WordCount(t) == Len(Split(t))
InRange(w) == w \in SliderMin..SliderMax

\* t is `body` followed by the three full stops
EndsWithEllipsis(t, body) == Len(t) = Len(body) + 3 /\ t = body \o <<DOT, DOT, DOT>>
WithoutEllipsis(t) == SubSeq(t, 1, Len(t) - 3)

\* d is t without the whitespace at its two ends
IsStripOf(d, t) ==
    /\ d # <<>> => d[1] \notin Whitespace /\ d[Len(d)] \notin Whitespace
    /\ \E i \in 0..Len(t) :
        /\ i + Len(d) <= Len(t)
        /\ SubSeq(t, i + 1, i + Len(d)) = d
        /\ \A k \in 1..Len(t) : (k <= i \/ k > i + Len(d)) => t[k] \in Whitespace

\* C1: the description is empty or what the most recent successful Describe
\* since the last Clear / Clear text produced, and a step changes it only by
\* clearing it or by storing the result of a successful Describe.
C1_DescriptionIsLastOutput ==
    [][/\ description' = <<>> \/ description' = lastOutput'
       /\ description' # description =>
            \/ lastAction' \in {"Clear", "ClearText"} /\ description' = <<>>
            \/ pc = "awaiting" /\ reply'.ok /\ lastAction' = "Describe"]_vars

C1_Witness ==
    /\ description # <<>>
    /\ description = lastOutput
    /\ lastAction = "Describe"
    /\ alert.kind = "error"

\* C2: in the script run of a Clear or Clear text click the description area
\* shows the empty placeholder.
C2_ClearShowsPlaceholder ==
    (pc = "idle" /\ lastAction \in {"Clear", "ClearText"})
        => shown.widget = "write" /\ shown.body = Placeholder

\* C3: for w in 1..300 the result of enforce_word_limit has at most w words;
\* a text of at most w words comes back unchanged, and so does the result
\* when the function is applied to it again.
C3_AtMostLimitAndIdempotent ==
    InRange(fnLimit) =>
        /\ \A i \in 1..Len(fnOut) : WordCount(fnOut[i]) <= fnLimit
        /\ (Len(fnOut) >= 1 /\ WordCount(fnText) <= fnLimit) => fnOut[1] = fnText
        /\ Len(fnOut) = 2 => fnOut[2] = fnOut[1]

C3_Witness ==
    /\ InRange(fnLimit)
    /\ Len(fnOut) = 2
    /\ WordCount(fnText) > fnLimit
    /\ fnOut[1] # fnText

\* C4: a text of more than w words (w in 1..300) comes back as its first w
\* words, in order, followed by the ellipsis, from enforce_word_limit and
\* from describe_image_with_claude when the service answers that text.
C4_FirstWordsThenEllipsis ==
    (InRange(fnLimit) /\ WordCount(fnText) > fnLimit) =>
        /\ Len(fnOut) >= 1 =>
            /\ EndsWithEllipsis(fnOut[1], WithoutEllipsis(fnOut[1]))
            /\ Split(WithoutEllipsis(fnOut[1])) = FirstWords(fnText, fnLimit)
            /\ WordCount(fnOut[1]) = fnLimit
        /\ fnCall.v # 0 =>
            /\ EndsWithEllipsis(fnCall.value, WithoutEllipsis(fnCall.value))
            /\ Split(WithoutEllipsis(fnCall.value)) = FirstWords(fnText, fnLimit)
            /\ WordCount(fnCall.value) = fnLimit

C4_Witness ==
    /\ fnLimit = 2
    /\ WordCount(fnText) = 3
    /\ Len(fnOut) >= 1
    /\ fnCall.v # 0

FailsEarly ==
    /\ pc = "idle"
    /\ uploaded_file # NoFile
    /\ uploaded_file = Corrupt \/ (secrets # "key" /\ environ # "key")

FailsLate == pc = "awaiting" /\ ~reply'.ok

CauseText ==
    IF pc = "awaiting" THEN ServiceErrorText
    ELSE IF uploaded_file = Corrupt THEN "cannot identify image file"
    ELSE "Claude API key not found"

\* C5: a Describe that fails (undecodable image, no credential in secrets or
\* environment, or an error of the exchange) leaves the description as it
\* was, shows an error box carrying the cause, and ends the script run with
\* nothing outstanding, so that every control can be used again.
C5_FailedDescribeKeepsDescription ==
    [][(lastAction' = "Describe" /\ (FailsEarly \/ FailsLate)) =>
            /\ description' = description
            /\ alert'.kind = "error"
            /\ alert'.cause = CauseText
            /\ pc' = "idle"
            /\ outbox' = <<>>]_vars

C5_Witness ==
    /\ pc = "idle"
    /\ lastAction = "Describe"
    /\ alert.kind = "error"
    /\ alert.cause = ServiceErrorText
    /\ description # <<>>

\* C6: Describe with nothing uploaded shows the warning, does not call
\* to_png_bytes, sends nothing and leaves the description as it was.
C6_DescribeWithoutImage ==
    [][(pc = "idle" /\ lastAction' = "Describe" /\ uploaded_file = NoFile) =>
            /\ alert' = Warning
            /\ ~normalized'
            /\ sent' = 0
            /\ outbox' = <<>>
            /\ pc' = "idle"
            /\ description' = description]_vars

C6_Witness ==
    /\ lastAction = "Describe"
    /\ uploaded_file = NoFile
    /\ alert = Warning
    /\ description # <<>>

\* C7: Copy with an empty description writes nothing and confirms nothing;
\* with a non-empty description the clipboard receives exactly the text the
\* description area shows in that script run.
C7_CopyHandsOverShownText ==
    lastAction = "Copy" =>
        IF description = <<>>
        THEN clipboard = NoWrite /\ alert = NoAlert
        ELSE /\ shown.widget = "markdown"
             /\ clipboard.written
             /\ clipboard.text = shown.body

\* C8: for every requested limit v, above 300 too, the limit written into
\* the prompt and the limit handed to enforce_word_limit are both min(v, 300).
C8_SameClampedLimitTwice ==
    fnCall.v # 0 =>
        LET expected == IF fnCall.v > HardCap THEN HardCap ELSE fnCall.v
        IN  /\ fnCall.prompt_limit = expected
            /\ fnCall.enforce_limit = expected

C8_Witness ==
    /\ fnCall.v > HardCap
    /\ fnCall.prompt_limit = HardCap

CanSend ==
    /\ uploaded_file \notin {NoFile, Corrupt}
    /\ secrets = "key" \/ environ = "key"

\* C9: at most one request is outstanding; a Describe sends one request when
\* an image is staged, decodes and a credential is found, and none
\* otherwise; no other action sends one, and after a failed request nothing
\* is outstanding until Describe is clicked again.
C9_OneRequestPerDescribe ==
    /\ Len(outbox) <= 1
    /\ pc = "awaiting" => Len(outbox) = 1 /\ sent = 1 /\ lastAction = "Describe"
    /\ pc = "idle" => outbox = <<>>
    /\ (pc = "idle" /\ lastAction = "Describe") => sent = IF CanSend THEN 1 ELSE 0
    /\ lastAction # "Describe" => sent = 0

C9_Witness ==
    /\ pc = "idle"
    /\ lastAction = "Describe"
    /\ sent = 1
    /\ alert = Error(ServiceErrorText)
    /\ outbox = <<>>

Complies ==
    /\ pc = "idle"
    /\ lastAction = "Describe"
    /\ reply.ok
    /\ WordCount(ResponseText(reply.content)) <= Min(max_words, HardCap)

\* C10 as stated: a response within the limit is stored and shown verbatim.
C10_StoredVerbatim ==
    (Complies /\ WordCount(ResponseText(reply.content)) >= 1) =>
        /\ description = ResponseText(reply.content)
        /\ shown.body = ResponseText(reply.content)

\* C10 as amended: a response within the limit is stored without the
\* whitespace at its two ends and otherwise unchanged; that text is what is
\* shown, unless it is empty, when the placeholder is shown.
C10_StoredStripped ==
    Complies =>
        /\ IsStripOf(description, ResponseText(reply.content))
        /\ IF description = <<>>
           THEN shown.widget = "write" /\ shown.body = Placeholder
           ELSE shown.widget = "markdown" /\ shown.body = description

C10_Witness ==
    /\ Complies
    /\ description # <<>>
    /\ description # ResponseText(reply.content)
====
